---- MODULE Spec2Model ----
(***************************************************************************)
(* Streaming speech synthesis ingestion and playback of YushuRobotEDU's    *)
(* frontend:                                                               *)
(*   - ttsService.synthesizeTextStreamAdvanced   (the frame parser)        *)
(*   - TextToSpeech page: handleStreamEvent, playStreamingAudio,           *)
(*     updateStreamingAudio, playAudio, stopAudio (accumulator, playback)  *)
(*   - PPTPresentation and DocumentWorkflow      (segment sequencing)      *)
(*   - slideService.waitForPPTConversion         (the job monitor)         *)
(* Each part has its own specification over the variables it owns; the     *)
(* variables of the other parts stay at their initial values.              *)
(***************************************************************************)
EXTENDS Integers, Sequences, FiniteSets, TLC

VARIABLES
    \* ---- ttsService.synthesizeTextStreamAdvanced
    body,           \* the bytes of the response body, in network order
    readPos,        \* how many bytes reader.read() has handed out so far
    decoderPending, \* TextDecoder state: a lead byte waiting for its continuation
    buffer,         \* `buffer`: the text after the last newline seen
    delivered,      \* the events the callback was invoked with, in order
    readerState,    \* "reading" | "done" (the while loop left through `break`)
    splitInside,    \* some read so far ended inside a line (history, for the claims)
    \* ---- TextToSpeech page (TTSHistoryModal.tsx, component TextToSpeech)
    results,            \* `results` state: the synthesis results, newest first
    blobs,              \* what URL.createObjectURL has handed out: blobs[u] is behind url u
    audios,             \* every Audio element created so far
    audioRef,           \* audioRef.current: an index into audios, 0 for null
    streamingAudioRef,  \* streamingAudioRef.current, likewise
    currentPlaying,     \* `currentPlaying` state: a result id, 0 for null
    streamingAudio,     \* `streamingAudio` state: a result id, 0 for null
    streamingStatus,    \* `streamingStatus` state: "" or "busy" (any other text)
    sessions,           \* the running calls of handleSynthesizeStream
    nextId,             \* the next value of Date.now()
    rendered,           \* history: per result id, the highest buffer version played so far
    \* ---- PPTPresentation (PPTPresentation.tsx)
    slides,             \* `slides` state: the slides, here their page numbers
    currentSlideIndex,  \* `currentSlideIndex` state, counted from 0
    isPlayingAudio,     \* `isPlayingAudio` state
    currentAudioPage,   \* `currentAudioPage` state: a page number, 0 for null
    hasNarration,       \* `hasNarration` state
    isGeneratingNarration,  \* `isGeneratingNarration` state
    pptAudioRef,        \* the <audio> element behind audioRef
    audioFiles,         \* the pages whose narration audio the server can deliver
    timeouts,           \* the pending setTimeout callbacks of handleAudioEnded
    autoStarted,        \* history: the last page auto-play started, and after which page
    \* ---- DocumentWorkflow (part_003)
    tts,                \* workflowState.tts
    playbackState,      \* `playbackState` state
    wfAudioRef,         \* the <audio> element behind audioRef
    currentAudioIndex,  \* currentAudioIndex.current
    speechStream,       \* the response of synthesizeSpeechStream: what the server sends
    \* ---- slideService.waitForPPTConversion (part_015) and its caller
    now,                \* Date.now(), in units of 1000 ms
    startTime,          \* `startTime`
    maxWaitTime,        \* the parameter `maxWaitTime`
    waitPc,             \* where the call stands
    requestSent,        \* when the pending getDocumentSlides request was sent
    wakeAt,             \* when the pending setTimeout(resolve, checkInterval) is due
    conversion,         \* the conversion job of the server: "converting" | "done"
    pollFailed,         \* history: the last poll that settled ended in the catch clause
    isConverting,       \* `isConverting` state of PPTPresentation
    \* ---- llmService.chatStream (part_013) and ChatInterface
    isStreaming,        \* `isStreaming` state of ChatInterface
    chatStream,         \* the running call of chatStream: where it stands, the lines
                        \* of the response still to come, what it has called
    \* ---- DocumentService.synthesizeSpeechStream
    synthesizeSpeechStream  \* the running call, in the same way

parserVars ==
    <<body, readPos, decoderPending, buffer, delivered, readerState, splitInside>>

playerVars == <<audios, audioRef, streamingAudioRef, currentPlaying, streamingAudio>>

ttsVars == <<results, blobs, playerVars, streamingStatus, sessions, nextId, rendered>>

pptVars ==
    <<slides, currentSlideIndex, isPlayingAudio, currentAudioPage, hasNarration,
      isGeneratingNarration, pptAudioRef, audioFiles, timeouts, autoStarted>>

workflowVars == <<tts, playbackState, wfAudioRef, currentAudioIndex, speechStream>>

monitorVars ==
    <<now, startTime, maxWaitTime, waitPc, requestSent, wakeAt, conversion, pollFailed,
      isConverting>>

chatVars == <<isStreaming, chatStream>>

serviceVars == <<chatVars, synthesizeSpeechStream>>

pageVars == <<pptVars, workflowVars, monitorVars, serviceVars>>

vars == <<parserVars, ttsVars, pageVars>>

\* ------------------------------------------------------------------ helpers

RECURSIVE Flatten(_)
\* the concatenation of a sequence of sequences
Flatten(ss) == IF ss = <<>> THEN <<>> ELSE Head(ss) \o Flatten(Tail(ss))

Last(s) == s[Len(s)]
Front(s) == SubSeq(s, 1, Len(s) - 1)

\* ------------------------------------------------------------------ bounds

\* how many records (or stray lines) one response body carries
MaxRecords == 2

\* how many results the page holds
MaxResults == 2

\* how many times handleSynthesizeStream is called
MaxStreams == 1

\* how many times it is called where streams may overlap
MaxSessions == 2

\* how many audio_chunk events the streams deliver to handleStreamEvent
MaxChunks == 2

\* how many Audio elements are alive at a time
MaxAudios == 2

\* how many slides the presentation has
MaxSlides == 3

\* how many setTimeout callbacks of handleAudioEnded are pending at a time
MaxTimeouts == 2

\* how many segments a speech stream announces
MaxSegments == 3

\* how many times handleTTSSynthesis is called
MaxSyntheses == 2

\* the last instant the clock tells apart; it stands for every later one
MaxTime == 12

\* ------------------------------------------------------------------
\* TextToSpeech page: the values of its state before anything happened

NULL == 0

TtsIdle ==
    /\ results = <<>>
    /\ blobs = <<>>
    /\ audios = <<>>
    /\ audioRef = NULL
    /\ streamingAudioRef = NULL
    /\ currentPlaying = NULL
    /\ streamingAudio = NULL
    /\ streamingStatus = ""
    /\ sessions = <<>>
    /\ nextId = 1
    /\ rendered = <<>>

\* PPTPresentation before a document is loaded
PptIdle ==
    /\ slides = <<>>
    /\ currentSlideIndex = 0
    /\ isPlayingAudio = FALSE
    /\ currentAudioPage = NULL
    /\ hasNarration = FALSE
    /\ isGeneratingNarration = FALSE
    /\ pptAudioRef = [src |-> NULL, state |-> "paused", from |-> "", after |-> 0]
    /\ audioFiles = {}
    /\ timeouts = <<>>
    /\ autoStarted = [after |-> 0, page |-> 0]

\* DocumentWorkflow as its useState and useRef calls initialise it
WorkflowIdle ==
    /\ tts = [completed |-> FALSE, audioSegments |-> <<>>, currentSegment |-> 0,
              totalSegments |-> 0, streaming |-> FALSE, error |-> FALSE]
    /\ playbackState = [isPlaying |-> FALSE, currentSegment |-> 0, totalSegments |-> 0]
    /\ wfAudioRef = [src |-> NULL, state |-> "paused", index |-> 0, ended |-> FALSE]
    /\ currentAudioIndex = 0
    /\ speechStream = [round |-> 0, total |-> 0, sent |-> 0, open |-> FALSE]

\* no call of waitForPPTConversion is running
MonitorIdle ==
    /\ now = 0
    /\ startTime = 0
    /\ maxWaitTime = 0
    /\ waitPc = "idle"
    /\ requestSent = 0
    /\ wakeAt = 0
    /\ conversion = "converting"
    /\ pollFailed = FALSE
    /\ isConverting = FALSE

\* no call of chatStream or synthesizeSpeechStream has been made
ServiceIdle ==
    /\ isStreaming = FALSE
    /\ chatStream = [pc |-> "idle", lines |-> <<>>, tail |-> "",
                     fullContent |-> 0, onComplete |-> 0, onError |-> 0]
    /\ synthesizeSpeechStream =
          [pc |-> "idle", body |-> <<>>, lines |-> <<>>, failed |-> FALSE,
           onAudioChunk |-> 0, onComplete |-> 0, onError |-> 0, late |-> FALSE]

\* ------------------------------------------------------------------
\* ttsService.synthesizeTextStreamAdvanced: the frame parser
\*
\* A byte is a one-character string; the two bytes of the one non-ASCII
\* character of the model are "C3" and "A9", which decode to "U+E9".
\* The text of an event object is abbreviated: "{" t "}" or "{" t x "}",
\* where t is the letter of its type and x a character of a string field.

\* new TextDecoder().decode(value, {stream: true}): UTF-8, an incomplete
\* sequence at the end of a read is kept for the next read
RECURSIVE decode(_, _)
decode(pending, bytes) ==
    IF bytes = <<>> THEN [text |-> <<>>, pending |-> pending]
    ELSE LET b == Head(bytes) IN
         IF pending # ""
         THEN IF b = "A9"
              THEN LET r == decode("", Tail(bytes))
                   IN  [r EXCEPT !.text = <<"U+E9">> \o @]
              ELSE LET r == decode("", bytes)
                   IN  [r EXCEPT !.text = <<"U+FFFD">> \o @]
         ELSE IF b = "C3" THEN decode(b, Tail(bytes))
         ELSE IF b = "A9"
              THEN LET r == decode("", Tail(bytes))
                   IN  [r EXCEPT !.text = <<"U+FFFD">> \o @]
              ELSE LET r == decode("", Tail(bytes))
                   IN  [r EXCEPT !.text = <<b>> \o @]

\* buffer.split('\n'): always at least one piece, the last one is the text
\* after the last newline
RECURSIVE split(_)
split(text) ==
    IF text = <<>> THEN << <<>> >>
    ELSE LET rest == split(Tail(text)) IN
         IF Head(text) = "\n"
         THEN << <<>> >> \o rest
         ELSE << <<Head(text)>> \o Head(rest) >> \o Tail(rest)

\* a variant of linesPop that forgets the incomplete last line
linesPopDropped(lines) == <<>>

\* lines.pop() || '': the last piece stays in the buffer
linesPop(lines) == Last(lines)

DataPrefix == <<"d", "a", "t", "a", ":", " ">>

\* line.startsWith('data: ')
startsWith(line, prefix) ==
    /\ Len(line) >= Len(prefix)
    /\ SubSeq(line, 1, Len(prefix)) = prefix

\* line.slice(6)
slice(line, n) == SubSeq(line, n + 1, Len(line))

TypeLetters == {"s", "c", "f", "x", "e", "h"}

\* the event type a type letter stands for
TypeOf(t) ==
    CASE t = "s" -> "start"
      [] t = "c" -> "audio_chunk"
      [] t = "f" -> "complete"
      [] t = "x" -> "error"
      [] t = "e" -> "end"
      [] OTHER   -> "heartbeat"

RECURSIVE trim(_)
\* JSON.parse ignores white space around the value
trim(text) ==
    IF text = <<>> THEN <<>>
    ELSE IF Head(text) \in {" ", "\r"} THEN trim(Tail(text))
    ELSE IF Last(text) \in {" ", "\r"} THEN trim(Front(text))
    ELSE text

\* JSON.parse(text): ok = FALSE stands for the SyntaxError it throws
JSONparse(text) ==
    LET t == trim(text) IN
    IF /\ Len(t) \in {3, 4}
       /\ t[1] = "{"
       /\ t[Len(t)] = "}"
       /\ t[2] \in TypeLetters
       /\ Len(t) = 4 => t[3] \in {"U+E9", "U+FFFD", "a"}
    THEN [ok |-> TRUE, value |-> SubSeq(t, 2, Len(t) - 1)]
    ELSE [ok |-> FALSE, value |-> <<>>]

RECURSIVE forLinesAborting(_)
\* a variant of forLines that gives up at the first line it cannot parse
forLinesAborting(lines) ==
    IF lines = <<>> THEN <<>>
    ELSE LET line == Head(lines) IN
         IF startsWith(line, DataPrefix)
         THEN LET eventData == JSONparse(slice(line, 6)) IN
              IF eventData.ok
              THEN <<eventData.value>> \o forLinesAborting(Tail(lines))
              ELSE <<>>
         ELSE forLinesAborting(Tail(lines))

RECURSIVE forLines(_)
\* the for loop over the complete lines: the events handed to the callback
forLines(lines) ==
    IF lines = <<>> THEN <<>>
    ELSE LET line == Head(lines) IN
         IF startsWith(line, DataPrefix)
         THEN LET eventData == JSONparse(slice(line, 6)) IN
              IF eventData.ok
              THEN <<eventData.value>> \o forLines(Tail(lines))
              ELSE forLines(Tail(lines))
         ELSE forLines(Tail(lines))

\* one pass of the while loop body after a read that returned `value`
onRead(buf, pending, value) ==
    LET dec   == decode(pending, value)
        text  == buf \o dec.text
        lines == split(text)
    IN  [buffer |-> linesPop(lines),
         pending |-> dec.pending,
         events |-> forLines(Front(lines))]

\* what a response body is made of: records, stray lines and an
\* unterminated tail
Pieces ==
    { <<"d", "a", "t", "a", ":", " ", "{", "c", "}", "\n">>,
      <<"d", "a", "t", "a", ":", " ", "{", "e", "}", "\n">>,
      <<"d", "a", "t", "a", ":", " ", "{", "s", "C3", "A9", "}", "\n">>,
      <<"d", "a", "t", "a", ":", " ", "{", "c", "\n">>,
      <<"\n">>,
      <<"d", "a", "t", "a", ":", " ", "{", "f", "}">> }

RECURSIVE SeqsUpTo(_, _)
\* the sequences over S of length at most n
SeqsUpTo(S, n) ==
    IF n = 0 THEN { <<>> }
    ELSE LET shorter == SeqsUpTo(S, n - 1)
         IN  shorter \cup { <<x>> \o s : x \in S, s \in {t \in shorter : Len(t) = n - 1} }

Bodies == { Flatten(ps) : ps \in SeqsUpTo(Pieces, MaxRecords) }

\* the parser's variables while no response is being read
ParserIdle ==
    /\ body = <<>>
    /\ readPos = 0
    /\ decoderPending = ""
    /\ buffer = <<>>
    /\ delivered = <<>>
    /\ readerState = "done"
    /\ splitInside = FALSE

ParserInit ==
    /\ body \in Bodies
    /\ readPos = 0
    /\ decoderPending = ""
    /\ buffer = <<>>
    /\ delivered = <<>>
    /\ readerState = "reading"
    /\ splitInside = FALSE
    /\ TtsIdle
    /\ PptIdle
    /\ WorkflowIdle
    /\ MonitorIdle
    /\ ServiceIdle

\* const { done, value } = await reader.read() with done = false: the next
\* n bytes of the body, for any n the network chooses
Read ==
    /\ readerState = "reading"
    /\ readPos < Len(body)
    /\ \E n \in 1..(Len(body) - readPos) :
          LET r == onRead(buffer, decoderPending,
                          SubSeq(body, readPos + 1, readPos + n))
          IN  /\ readPos' = readPos + n
              /\ buffer' = r.buffer
              /\ decoderPending' = r.pending
              /\ delivered' = delivered \o r.events
              /\ splitInside' = (splitInside \/ (r.buffer # <<>> /\ readPos + n < Len(body)))
    /\ UNCHANGED <<body, readerState, ttsVars, pageVars>>

\* reader.read() returns done = true: break, then reader.releaseLock()
ReadDone ==
    /\ readerState = "reading"
    /\ readPos = Len(body)
    /\ readerState' = "done"
    /\ UNCHANGED <<body, readPos, decoderPending, buffer, delivered, splitInside, ttsVars, pageVars>>

ParserNext == Read \/ ReadDone

ParserSpec == ParserInit /\ [][ParserNext]_vars

\* what the callback sees when the whole body arrives in one read
SingleRead(b) == onRead(<<>>, "", b).events

\* C1: whatever the way the body is cut into reads, the callback has been
\* invoked with exactly the events of a single read of the whole body, each
\* once and in order, when the loop ends; while reading, what was delivered
\* is a prefix of them.
C1_SplitInvariance ==
    /\ Len(delivered) <= Len(SingleRead(body))
    /\ delivered = SubSeq(SingleRead(body), 1, Len(delivered))
    /\ readerState = "done" => delivered = SingleRead(body)

\* a body of newline-terminated records was read in pieces, one of which ended
\* inside a record, and the events came out
C1_Witness ==
    /\ readerState = "done"
    /\ splitInside
    /\ Len(delivered) >= 2
    /\ Last(body) = "\n"

\* ------------------------------------------------------------------
\* TextToSpeech page: the accumulator (handleStreamEvent) and the playback
\* functions it calls
\*
\* Time is counted in chunks: a blob made of v chunks plays for v units.

B64Alphabet ==
    <<
           "A", "B", "C", "D", "E", "F", "G", "H", "I", "J", "K", "L", "M", "N", "O", "P",
           "Q", "R", "S", "T", "U", "V", "W", "X", "Y", "Z", "a", "b", "c", "d", "e", "f",
           "g", "h", "i", "j", "k", "l", "m", "n", "o", "p", "q", "r", "s", "t", "u", "v",
           "w", "x", "y", "z", "0", "1", "2", "3", "4", "5", "6", "7", "8", "9", "+", "/" >>

\* the six bits a base64 digit stands for
B64Value(c) == (CHOOSE i \in 1..64 : B64Alphabet[i] = c) - 1

RECURSIVE B64Bytes(_)
\* the bytes a run of base64 digits decodes to (padding removed)
B64Bytes(cs) ==
    IF Len(cs) >= 4
    THEN LET n == ((B64Value(cs[1]) * 64 + B64Value(cs[2])) * 64
                      + B64Value(cs[3])) * 64 + B64Value(cs[4])
         IN  <<n \div 65536, (n \div 256) % 256, n % 256>>
                 \o B64Bytes(SubSeq(cs, 5, Len(cs)))
    ELSE IF Len(cs) = 3
    THEN LET n == (B64Value(cs[1]) * 64 + B64Value(cs[2])) * 64 + B64Value(cs[3])
         IN  <<n \div 1024, (n \div 4) % 256>>
    ELSE IF Len(cs) = 2
    THEN <<(B64Value(cs[1]) * 64 + B64Value(cs[2])) \div 16>>
    ELSE <<>>

\* atob(event.data) followed by the charCodeAt loop: the bytes, or
\* ok = FALSE for the InvalidCharacterError atob throws
atob(data) ==
    LET n == Len(data)
        unpadded ==
            IF n > 0 /\ n % 4 = 0
            THEN IF data[n] = "=" /\ data[n - 1] = "=" THEN SubSeq(data, 1, n - 2)
                 ELSE IF data[n] = "=" THEN SubSeq(data, 1, n - 1)
                 ELSE data
            ELSE data
    IN  IF \/ Len(unpadded) % 4 = 1
           \/ \E i \in 1..Len(unpadded) :
                 \A k \in 1..64 : B64Alphabet[k] # unpadded[i]
        THEN [ok |-> FALSE, bytes |-> <<>>]
        ELSE [ok |-> TRUE, bytes |-> B64Bytes(unpadded)]

\* the payloads the server sends: "Hello", "World", one with a character
\* that is no base64 digit, and the empty string
PayloadHello == <<"S", "G", "V", "s", "b", "G", "8", "=">>
PayloadWorld == <<"V", "2", "9", "y", "b", "G", "Q", "=">>
PayloadBad   == <<"S", "G", "V", "*", "b", "G", "8", "=">>
Payloads == {PayloadHello, PayloadWorld, PayloadBad, <<>>}

\* the chunk_count values the server sends
ChunkCounts == {1, 2}

\* TTSStreamEvent, the fields handleStreamEvent reads
Events ==
    [type : {"start", "complete", "error", "end", "heartbeat"},
     chunk_count : {0}, data : {<<>>}]
    \cup [type : {"audio_chunk"}, chunk_count : ChunkCounts, data : Payloads]

\* ---- the playback state as one value, so that the playback functions compose

Player ==
    [audios |-> audios, audioRef |-> audioRef,
     streamingAudioRef |-> streamingAudioRef,
     currentPlaying |-> currentPlaying, streamingAudio |-> streamingAudio,
     rendered |-> rendered]

\* Garbage collection: an element that is paused, has no queued event and
\* no pending load handler and is held by neither ref is reachable from no
\* code any more; it is dropped and the refs are renumbered.
Collect(p) ==
    LET keep == {i \in DOMAIN p.audios :
                    \/ i \in {p.audioRef, p.streamingAudioRef}
                    \/ ~p.audios[i].paused
                    \/ p.audios[i].playEvent
                    \/ ~p.audios[i].loaded}
        rank(i) == Cardinality({k \in keep : k <= i})
    IN  [p EXCEPT
           !.audios = [n \in 1..Cardinality(keep) |->
                          p.audios[CHOOSE i \in keep : rank(i) = n]],
           !.audioRef = IF @ = NULL THEN NULL ELSE rank(@),
           !.streamingAudioRef = IF @ = NULL THEN NULL ELSE rank(@)]

SetPlayer(p) ==
    LET q == Collect(p) IN
    /\ Len(q.audios) <= MaxAudios
    /\ audios' = q.audios
    /\ audioRef' = q.audioRef
    /\ streamingAudioRef' = q.streamingAudioRef
    /\ currentPlaying' = q.currentPlaying
    /\ streamingAudio' = q.streamingAudio
    /\ rendered' = q.rendered

\* new Audio(url): kind tells which function created it and so which
\* handlers it carries; savedTime and wasPlaying are the values its
\* onloadeddata closure holds
NewAudio(url, rid, version, kind, savedTime, wasPlaying) ==
    [src |-> url, rid |-> rid, version |-> version, kind |-> kind,
     paused |-> TRUE, currentTime |-> 0,
     loaded |-> (kind # "swap"),
     playEvent |-> FALSE, savedTime |-> savedTime, wasPlaying |-> wasPlaying]

\* element.pause() when the ref is not null
pause(p, i) ==
    IF i = NULL THEN p ELSE [p EXCEPT !.audios[i].paused = TRUE]

Max(a, b) == IF a >= b THEN a ELSE b

\* element.play(): when the browser allows it the element stops being
\* paused at once and a 'play' event is queued (an element that had ended
\* starts over); otherwise the promise is rejected and the element stays
\* paused
play(p, i, allowed) ==
    IF ~allowed THEN p
    ELSE LET e == p.audios[i] IN
         [p EXCEPT !.audios[i].paused = FALSE,
                   !.audios[i].currentTime = IF e.currentTime = e.version THEN 0 ELSE @,
                   !.audios[i].playEvent = e.paused \/ e.playEvent,
                   !.rendered[e.rid] = Max(@, e.version)]

\* playStreamingAudio(resultId, audioUrl)
playStreamingAudio(p, resultId, audioUrl, version, allowed) ==
    LET p1 == pause(pause(p, p.streamingAudioRef), p.audioRef)
        i  == Len(p1.audios) + 1
        p2 == [p1 EXCEPT !.audios = Append(@, NewAudio(audioUrl, resultId, version,
                                                       "stream", 0, FALSE)),
                         !.streamingAudioRef = i]
    IN  play(p2, i, allowed)

\* updateStreamingAudio(resultId, newAudioUrl); closureStreamingAudio is the
\* value of the `streamingAudio` state in the render whose handleStreamEvent
\* the stream's callback closes over
updateStreamingAudio(p, closureStreamingAudio, resultId, newAudioUrl, version) ==
    IF closureStreamingAudio = resultId /\ p.streamingAudioRef # NULL
    THEN LET old == p.audios[p.streamingAudioRef]
             i   == Len(p.audios) + 1
             p1  == [p EXCEPT !.audios = Append(@, NewAudio(newAudioUrl, resultId, version,
                                                           "swap", old.currentTime,
                                                           ~old.paused))]
             p2  == pause(p1, p.streamingAudioRef)
         IN  [p2 EXCEPT !.streamingAudioRef = i]
    ELSE p

\* a variant of newChunks that keeps only the chunk just received
newChunksReplaced(result, audioArray) == <<audioArray>>

\* const newChunks = [...(result.audio_chunks || []), audioArray]
newChunks(result, audioArray) == Append(result.audio_chunks, audioArray)

\* a variant of updateResult that writes the status into every result
updateResultOfAny(rs, resultId, status) ==
    [i \in DOMAIN rs |-> [rs[i] EXCEPT !.status = status]]

\* updateResult(resultId, updates) for a status update
updateResult(rs, resultId, status) ==
    [i \in DOMAIN rs |->
        IF rs[i].id = resultId THEN [rs[i] EXCEPT !.status = status] ELSE rs[i]]

\* a variant of StartsPlayback that starts playback on every chunk
StartsPlaybackOnAny(event) == event.chunk_count >= 1

\* whether the audio_chunk branch creates an Audio element for this event
StartsPlayback(event) == event.chunk_count = 1

\* a variant of chunkDropped that lets an undecodable payload through
chunkDroppedNever(event) == event.data = <<>>

\* the audio_chunk branch does nothing: `if (event.data)` is false, or atob
\* throws and the catch clause writes a console line
chunkDropped(event) == event.data = <<>> \/ ~atob(event.data).ok

\* handleStreamEvent(event, resultId) for session s
handleStreamEvent(s, event) ==
    LET resultId == sessions[s].resultId IN
    CASE event.type = "start" ->
            /\ streamingStatus' = "busy"
            /\ results' = updateResult(results, resultId, "streaming")
            /\ UNCHANGED <<blobs, playerVars, rendered>>
      [] event.type = "audio_chunk" ->
            IF chunkDropped(event)
            THEN UNCHANGED <<results, blobs, playerVars, rendered, streamingStatus>>
            ELSE LET audioArray == atob(event.data).bytes
                     hit == {i \in DOMAIN results : results[i].id = resultId}
                 IN  /\ streamingStatus' = "busy"
                     /\ IF hit = {}
                        THEN UNCHANGED <<results, blobs, playerVars, rendered>>
                        ELSE LET i == CHOOSE j \in hit : TRUE
                                 chunks == newChunks(results[i], audioArray)
                                 combinedArray == Flatten(chunks)
                                 audioUrl == Len(blobs) + 1
                                 version == Len(chunks)
                             IN  /\ blobs' = Append(blobs, [rid |-> resultId,
                                                            version |-> version,
                                                            bytes |-> combinedArray])
                                 /\ results' = [results EXCEPT
                                        ![i].audio_chunks = chunks,
                                        ![i].file_size = Len(combinedArray),
                                        ![i].stream_audio_url = audioUrl]
                                 /\ IF StartsPlayback(event)
                                    THEN \E allowed \in BOOLEAN :
                                            SetPlayer(playStreamingAudio(
                                                Player, resultId, audioUrl,
                                                version, allowed))
                                    ELSE SetPlayer(updateStreamingAudio(
                                            Player, sessions[s].closureStreamingAudio,
                                            resultId, audioUrl, version))
      [] event.type = "complete" ->
            /\ streamingStatus' = "busy"
            /\ results' = updateResult(results, resultId, "completed")
            /\ UNCHANGED <<blobs, playerVars, rendered>>
      [] event.type = "error" ->
            /\ streamingStatus' = ""
            /\ results' = updateResult(results, resultId, "error")
            /\ UNCHANGED <<blobs, playerVars, rendered>>
      [] event.type = "end" ->
            /\ streamingStatus' = ""
            /\ UNCHANGED <<results, blobs, playerVars, rendered>>
      [] OTHER ->
            UNCHANGED <<results, blobs, playerVars, rendered, streamingStatus>>

\* handleSynthesizeStream up to its await: a pending result is put in front
\* and the stream is requested. The button that calls it shows `loading`
\* while streamingStatus is not empty.
handleSynthesizeStream(limit) ==
    /\ streamingStatus = ""
    /\ Len(results) < MaxResults
    /\ Len(sessions) < limit
    /\ results' = <<[id |-> nextId, status |-> "pending", audio_chunks |-> <<>>,
                     file_size |-> 0, stream_audio_url |-> NULL,
                     download_url |-> NULL]>> \o results
    /\ streamingStatus' = "busy"
    /\ sessions' = Append(sessions,
            [resultId |-> nextId, closureStreamingAudio |-> streamingAudio,
             open |-> TRUE, ingested |-> <<>>, timer |-> FALSE, final |-> FALSE])
    /\ rendered' = Append(rendered, 0)
    /\ nextId' = nextId + 1
    /\ UNCHANGED <<blobs, playerVars, parserVars, pageVars>>

\* the synthesize button, for the specifications with a single stream
HandleSynthesizeStream == handleSynthesizeStream(MaxStreams)

\* the synthesize button, for the specification in which streams overlap
NextSynthesizeStream == handleSynthesizeStream(MaxSessions)

RECURSIVE SumLen(_)
SumLen(ss) == IF ss = <<>> THEN 0 ELSE Len(Head(ss).ingested) + SumLen(Tail(ss))

\* the audio_chunk events handled so far, over all streams
ChunksDelivered == SumLen(sessions)

\* the events of the playback specification: one payload, as the playback
\* functions never read the bytes
PlainEvents == {event \in Events : event.data \in {<<>>, PayloadHello}
                                      /\ (event.type = "audio_chunk" => event.data # <<>>)}

\* the callback of synthesizeTextStreamAdvanced runs for one event, which
\* the server chooses among eventSet
StreamEventOf(s, event) ==
    /\ sessions[s].open
    /\ event.type = "audio_chunk" => ChunksDelivered < MaxChunks
    /\ handleStreamEvent(s, event)
    /\ sessions' = [sessions EXCEPT
          ![s].ingested = IF event.type = "audio_chunk"
                          THEN Append(@, [chunk_count |-> event.chunk_count,
                                          data |-> event.data])
                          ELSE @,
          ![s].timer = @ \/ event.type = "complete",
          ![s].final = @ \/ event.type \in {"complete", "end"}]
    /\ UNCHANGED <<nextId, parserVars, pageVars>>

StreamEvent(eventSet) ==
    \E s \in DOMAIN sessions, event \in eventSet : StreamEventOf(s, event)

\* the response body ends: synthesizeTextStreamAdvanced returns
StreamEnds ==
    \E s \in DOMAIN sessions :
        /\ sessions[s].open
        /\ sessions' = [sessions EXCEPT ![s].open = FALSE]
        /\ UNCHANGED <<results, blobs, playerVars, rendered, streamingStatus,
                       nextId, parserVars, pageVars>>

\* setTimeout(() => setStreamingStatus(''), 2000) of the 'complete' branch
StatusTimer ==
    \E s \in DOMAIN sessions :
        /\ sessions[s].timer
        /\ sessions' = [sessions EXCEPT ![s].timer = FALSE]
        /\ streamingStatus' = ""
        /\ UNCHANGED <<results, blobs, playerVars, rendered, nextId, parserVars, pageVars>>

\* playAudio: "if (audioRef.current) audioRef.current.pause()"
playAudioStops(p) == pause(p, p.audioRef)

\* synthesizeMutation.onSuccess with a download_url: the result of a
\* synthesis that was not streamed is put in front; the url of the file is
\* written as the negated id
SynthesizeSuccess ==
    /\ Len(results) < MaxResults
    /\ results' = <<[id |-> nextId, status |-> "none", audio_chunks |-> <<>>,
                     file_size |-> 1, stream_audio_url |-> NULL,
                     download_url |-> -nextId]>> \o results
    /\ rendered' = Append(rendered, 0)
    /\ nextId' = nextId + 1
    /\ UNCHANGED <<blobs, playerVars, streamingStatus, sessions, parserVars, pageVars>>

\* how long the audio behind a url is: a streamed blob plays one unit per
\* chunk, a downloaded file one unit
UrlVersion(url) == IF url > 0 THEN blobs[url].version ELSE 1

\* a result with neither a stream_audio_url nor a download_url
NoPlayableData(result) == result.stream_audio_url = NULL /\ result.download_url = NULL

\* playAudio(result): what it makes of the playback state
playAudio(p, result, allowed) ==
    IF p.currentPlaying = result.id
    THEN IF p.audioRef # NULL
         THEN [pause(p, p.audioRef) EXCEPT !.currentPlaying = NULL]
         ELSE p
    ELSE LET p1 == playAudioStops(p) IN
         IF NoPlayableData(result)
         THEN p1
         ELSE LET audioUrl == IF result.stream_audio_url # NULL
                              THEN result.stream_audio_url
                              ELSE result.download_url
                  k  == Len(p1.audios) + 1
                  p2 == [p1 EXCEPT
                           !.audios = Append(@, NewAudio(audioUrl, result.id,
                                                         UrlVersion(audioUrl),
                                                         "manual", 0, FALSE)),
                           !.audioRef = k]
              IN  IF allowed
                  THEN play(p2, k, TRUE)
                  ELSE [p2 EXCEPT !.currentPlaying = NULL]

\* playAudio is called with the i-th result of the list
PlayAudioOf(i, allowed) ==
    /\ SetPlayer(playAudio(Player, results[i], allowed))
    /\ UNCHANGED <<results, blobs, streamingStatus, sessions, nextId, parserVars, pageVars>>

\* the play button of a result card, disabled while the result is pending
\* or in error or has no url
PlayAudio ==
    \E i \in DOMAIN results, allowed \in BOOLEAN :
        /\ results[i].status \notin {"pending", "error"}
        /\ ~NoPlayableData(results[i])
        /\ PlayAudioOf(i, allowed)

\* stopAudio(): both elements are paused and rewound, and the playback
\* states are reset
stopAudio(p) ==
    LET stop(q, i) == IF i = NULL THEN q
                      ELSE [q EXCEPT !.audios[i].paused = TRUE,
                                     !.audios[i].currentTime = 0]
    IN  [stop(stop(p, p.audioRef), p.streamingAudioRef) EXCEPT
            !.currentPlaying = NULL, !.streamingAudio = NULL]

\* the stop button, shown while currentPlaying is not null
StopAudio ==
    /\ currentPlaying # NULL
    /\ SetPlayer(stopAudio(Player))
    /\ UNCHANGED <<results, blobs, streamingStatus, sessions, nextId, parserVars, pageVars>>

\* the queued 'play' event of an element is dispatched to its onplay handler
OnPlay ==
    \E i \in DOMAIN audios :
        LET e == audios[i] IN
        /\ e.playEvent
        /\ SetPlayer([Player EXCEPT
              !.audios[i].playEvent = FALSE,
              !.currentPlaying = e.rid,
              !.streamingAudio = IF e.kind = "manual" THEN @ ELSE e.rid])
        /\ UNCHANGED <<results, blobs, streamingStatus, sessions, nextId, parserVars, pageVars>>

\* playback of a loaded, playing element advances by one unit; at the end
\* of its data the element pauses and its onended handler runs
TimeUpdate ==
    \E i \in DOMAIN audios :
        LET e == audios[i] IN
        /\ e.loaded
        /\ ~e.paused
        /\ IF e.currentTime + 1 < e.version
           THEN SetPlayer([Player EXCEPT !.audios[i].currentTime = @ + 1])
           ELSE SetPlayer([Player EXCEPT
                   !.audios[i].currentTime = e.version,
                   !.audios[i].paused = TRUE,
                   !.currentPlaying = NULL,
                   !.streamingAudio = IF e.kind = "manual" THEN @ ELSE NULL])
        /\ UNCHANGED <<results, blobs, streamingStatus, sessions, nextId, parserVars, pageVars>>

TtsInit ==
    /\ TtsIdle
    /\ PptIdle
    /\ WorkflowIdle
    /\ MonitorIdle
    /\ ServiceIdle
    /\ ParserIdle

\* the accumulator alone: streams of every kind of event arrive while
\* nobody touches the controls and the audio engine makes no progress
AccumulatorNext ==
    \/ HandleSynthesizeStream
    \/ StreamEvent(Events)
    \/ StreamEnds
    \/ StatusTimer

AccumulatorSpec == TtsInit /\ [][AccumulatorNext]_vars

\* the whole page: streams, the user at the controls and the audio engine
TtsNext ==
    \/ HandleSynthesizeStream
    \/ StreamEvent(PlainEvents)
    \/ SynthesizeSuccess
    \/ StreamEnds
    \/ StatusTimer
    \/ PlayAudio
    \/ StopAudio
    \/ OnPlay
    \/ TimeUpdate

Spec == TtsInit /\ [][TtsNext]_vars

\* the streams alone, but several of them: the button is free again as soon
\* as streamingStatus is empty, whether or not the earlier response has ended
SessionsNext ==
    \/ NextSynthesizeStream
    \/ StreamEvent(PlainEvents)
    \/ StreamEnds
    \/ StatusTimer

SessionsSpec == TtsInit /\ [][SessionsNext]_vars

\* playAudio as a function of its argument: it is called with any result of
\* the list, also one whose play button is disabled
PlayAudioCalled ==
    \E i \in DOMAIN results, allowed \in BOOLEAN : PlayAudioOf(i, allowed)

PlayAudioNext ==
    \/ HandleSynthesizeStream
    \/ SynthesizeSuccess
    \/ PlayAudioCalled
    \/ StopAudio
    \/ OnPlay
    \/ TimeUpdate

PlayAudioSpec == TtsInit /\ [][PlayAudioNext]_vars

\* ------------------------------------------------------------------
\* the claims about the accumulator and the playback functions

\* the result a stream writes to, as a set (empty once it is deleted)
ResultOf(rs, s) == {rs[i] : i \in {j \in DOMAIN rs : rs[j].id = sessions[s].resultId}}

RECURSIVE StrictlyIncreasing(_)
StrictlyIncreasing(ing) ==
    \/ Len(ing) <= 1
    \/ /\ ing[1].chunk_count < ing[2].chunk_count
       /\ StrictlyIncreasing(Tail(ing))

\* the events whose payload is a non-empty base64 text
Decodable(e) == e.data # <<>> /\ atob(e.data).ok

RECURSIVE ConcatDecoded(_)
\* the decoded payloads of a run of audio_chunk events, one after another
ConcatDecoded(ing) ==
    IF ing = <<>> THEN <<>>
    ELSE atob(Head(ing).data).bytes \o ConcatDecoded(Tail(ing))

\* C2: when the audio_chunk events handled for a result carry valid payloads
\* and strictly increasing chunk_count, its audio_chunks, put end to end,
\* and the bytes of the blob behind stream_audio_url are the decoded
\* payloads in arrival order, and file_size is their length.
C2_RoundTrip ==
    \A s \in DOMAIN sessions :
        LET ing == sessions[s].ingested IN
        (StrictlyIncreasing(ing) /\ \A k \in DOMAIN ing : Decodable(ing[k]))
        => \A r \in ResultOf(results, s) :
              /\ Flatten(r.audio_chunks) = ConcatDecoded(ing)
              /\ r.file_size = Len(ConcatDecoded(ing))
              /\ Len(r.audio_chunks) = Len(ing)
              /\ ing # <<>> =>
                    /\ r.stream_audio_url # NULL
                    /\ blobs[r.stream_audio_url].bytes = ConcatDecoded(ing)

\* chunk 1 = "Hello" then chunk 2 = "World" were handled and the blob holds
\* the bytes of "HelloWorld"
C2_Witness ==
    \E s \in DOMAIN sessions :
        /\ sessions[s].ingested = <<[chunk_count |-> 1, data |-> PayloadHello],
                                    [chunk_count |-> 2, data |-> PayloadWorld]>>
        /\ \E r \in ResultOf(results, s) :
              blobs[r.stream_audio_url].bytes
                  = <<72, 101, 108, 108, 111, 87, 111, 114, 108, 100>>

\* the highest chunk_count among the decodable events handled so far
LastAccepted(ing) ==
    LET counts == {ing[k].chunk_count : k \in {j \in DOMAIN ing : Decodable(ing[j])}}
    IN  IF counts = {} THEN 0 ELSE CHOOSE m \in counts : \A c \in counts : c <= m

\* C3: handling an audio_chunk event whose chunk_count is not greater than
\* the last accepted one leaves the result's chunks, size and playable
\* handle as they were.
C3_DuplicateIgnored ==
    [][\A s \in DOMAIN sessions :
          LET ing == sessions[s].ingested IN
          (/\ sessions'[s].ingested # ing
           /\ Last(sessions'[s].ingested).chunk_count <= LastAccepted(ing))
          => ResultOf(results', s) = ResultOf(results, s)]_vars

\* the elements that are playing
Playing == {i \in DOMAIN audios : ~audios[i].paused}

\* C4: at most one audio element is playing, whatever playAudio,
\* playStreamingAudio, updateStreamingAudio and stopAudio have done.
C4_OnePlaybackSession == Cardinality(Playing) <= 1

\* C5: when an audio_chunk with chunk_count > 1 gives a result a new version
\* while its streaming element is playing, the streaming ref holds an element
\* for the new version that resumes at the position the old one had.
C5_SwapResumes ==
    [][\A s \in DOMAIN sessions :
          LET ing == sessions[s].ingested
              old == audios[streamingAudioRef]
          IN
          (/\ sessions'[s].ingested # ing
           /\ Last(sessions'[s].ingested).chunk_count > 1
           /\ ResultOf(results', s) # ResultOf(results, s)
           /\ streamingAudioRef # NULL
           /\ old.rid = sessions[s].resultId
           /\ ~old.paused)
          => /\ streamingAudioRef' # NULL
             /\ \A r \in ResultOf(results', s) :
                   /\ audios'[streamingAudioRef'].src = r.stream_audio_url
                   /\ audios'[streamingAudioRef'].wasPlaying
                   /\ audios'[streamingAudioRef'].savedTime = old.currentTime]_vars

\* C6: what is being played of a result is never older than the highest
\* version of that result played so far.
C6_NoOlderVersion ==
    \A i \in Playing :
        \E k \in Playing :
            /\ audios[k].rid = audios[i].rid
            /\ audios[k].version >= rendered[audios[i].rid]

\* ------------------------------------------------------------------
\* PPTPresentation: slide navigation and the narration sequencer
\*
\* The <audio> element is "paused", "loading" (play() was called and its
\* promise is pending) or "playing"; `from` tells whose continuation waits
\* for the promise and `after` the page whose end led to the call.

\* slideService.getSlideAudioUrl: the url is identified with its page number
getSlideAudioUrl(pageNumber) == pageNumber

\* audioRef.current.pause(); a pending play() promise is rejected, which
\* its continuation answers with a message only
pptPause(a) == [a EXCEPT !.state = "paused"]

\* audioRef.current.src = audioUrl, then audioRef.current.play()
pptPlay(audioUrl, from, after) ==
    [src |-> audioUrl, state |-> "loading", from |-> from, after |-> after]

\* a variant of goToSlideAccepts that lets the index one past the last slide
\* through
goToSlideAcceptsEnd(index) == index >= 0 /\ index <= Len(slides)

\* the test of goToSlide: `index >= 0 && index < slides.length`
goToSlideAccepts(index) == index >= 0 /\ index < Len(slides)

\* goToSlide(index), whichever button, thumbnail or key asks for it
GoToSlide ==
    \E index \in -1 .. Len(slides) :
        /\ index # currentSlideIndex
        /\ IF goToSlideAccepts(index)
           THEN currentSlideIndex' = index
           ELSE UNCHANGED currentSlideIndex
        /\ UNCHANGED <<slides, isPlayingAudio, currentAudioPage, hasNarration,
                       pptAudioRef, audioFiles, timeouts, autoStarted>>
        /\ UNCHANGED <<isGeneratingNarration, parserVars, ttsVars, serviceVars, workflowVars, monitorVars>>

\* checkNarrationStatus: the server says whether the document has narration
CheckNarrationStatus ==
    \E status \in BOOLEAN :
        /\ hasNarration' = status
        /\ hasNarration' # hasNarration
        /\ UNCHANGED <<slides, currentSlideIndex, isPlayingAudio, currentAudioPage,
                       pptAudioRef, audioFiles, timeouts, autoStarted>>
        /\ UNCHANGED <<isGeneratingNarration, parserVars, ttsVars, serviceVars, workflowVars, monitorVars>>

\* generateNarration up to its `await slideService.generatePPTNarration`;
\* its button is disabled while isGeneratingNarration
GenerateNarration ==
    /\ ~isGeneratingNarration
    /\ isGeneratingNarration' = TRUE
    /\ UNCHANGED <<slides, currentSlideIndex, isPlayingAudio, currentAudioPage,
                   hasNarration, pptAudioRef, audioFiles, timeouts, autoStarted>>
    /\ UNCHANGED <<parserVars, ttsVars, serviceVars, workflowVars, monitorVars>>

\* the server has written the audio of some pages and answers, or the
\* request fails: the rest of generateNarration with its finally clause
NarrationResponse ==
    \E written \in SUBSET (1 .. Len(slides)), success \in BOOLEAN :
        /\ isGeneratingNarration
        /\ audioFiles' = audioFiles \cup written
        /\ hasNarration' = IF success THEN TRUE ELSE hasNarration
        /\ isGeneratingNarration' = FALSE
        /\ UNCHANGED <<slides, currentSlideIndex, isPlayingAudio, currentAudioPage,
                       pptAudioRef, timeouts, autoStarted>>
        /\ UNCHANGED <<parserVars, ttsVars, serviceVars, workflowVars, monitorVars>>

\* history: the pending timers were set before the user's latest use of the
\* play or stop button; neither handler reads or clears them
Overtaken(ts) == [i \in DOMAIN ts |-> [ts[i] EXCEPT !.stale = TRUE]]

\* playCurrentSlideAudio, up to its `await audioRef.current.play()`
PlayCurrentSlideAudio ==
    /\ hasNarration
    /\ LET pageNumber == currentSlideIndex + 1 IN
       IF isPlayingAudio /\ currentAudioPage = pageNumber
       THEN /\ pptAudioRef' = pptPause(pptAudioRef)
            /\ isPlayingAudio' = FALSE
            /\ currentAudioPage' = NULL
       ELSE /\ pptAudioRef' = pptPlay(getSlideAudioUrl(pageNumber), "manual", 0)
            /\ UNCHANGED <<isPlayingAudio, currentAudioPage>>
    /\ timeouts' = Overtaken(timeouts)
    /\ UNCHANGED <<slides, currentSlideIndex, hasNarration, audioFiles, autoStarted>>
    /\ UNCHANGED <<isGeneratingNarration, parserVars, ttsVars, serviceVars, workflowVars, monitorVars>>

\* the play() promise resolves: playback has started, and the continuation
\* of playCurrentSlideAudio or of handleAudioEnded's timer sets the state
PptPlayResolves ==
    /\ pptAudioRef.state = "loading"
    /\ pptAudioRef.src \in audioFiles
    /\ pptAudioRef' = [pptAudioRef EXCEPT !.state = "playing"]
    /\ isPlayingAudio' = TRUE
    /\ currentAudioPage' = pptAudioRef.src
    /\ autoStarted' = IF pptAudioRef.from = "auto"
                      THEN [after |-> pptAudioRef.after, page |-> pptAudioRef.src]
                      ELSE autoStarted
    /\ UNCHANGED <<slides, currentSlideIndex, hasNarration, audioFiles, timeouts>>
    /\ UNCHANGED <<isGeneratingNarration, parserVars, ttsVars, serviceVars, workflowVars, monitorVars>>

\* the server has no audio for the page: the element's onError handler
\* runs and the play() promise is rejected (a message, or a console line)
PptPlayFails ==
    /\ pptAudioRef.state = "loading"
    /\ pptAudioRef.src \notin audioFiles
    /\ pptAudioRef' = [pptAudioRef EXCEPT !.state = "paused"]
    /\ isPlayingAudio' = FALSE
    /\ currentAudioPage' = NULL
    /\ UNCHANGED <<slides, currentSlideIndex, hasNarration, audioFiles, timeouts,
                   autoStarted>>
    /\ UNCHANGED <<isGeneratingNarration, parserVars, ttsVars, serviceVars, workflowVars, monitorVars>>

\* stopAudio, behind the button shown while isPlayingAudio
PptStopAudio ==
    /\ hasNarration
    /\ isPlayingAudio
    /\ pptAudioRef' = pptPause(pptAudioRef)
    /\ isPlayingAudio' = FALSE
    /\ currentAudioPage' = NULL
    /\ timeouts' = Overtaken(timeouts)
    /\ UNCHANGED <<slides, currentSlideIndex, hasNarration, audioFiles, autoStarted>>
    /\ UNCHANGED <<isGeneratingNarration, parserVars, ttsVars, serviceVars, workflowVars, monitorVars>>

\* the audio reaches its end and handleAudioEnded runs
HandleAudioEnded ==
    /\ pptAudioRef.state = "playing"
    /\ Len(timeouts) < MaxTimeouts
    /\ pptAudioRef' = [pptAudioRef EXCEPT !.state = "paused"]
    /\ isPlayingAudio' = FALSE
    /\ currentAudioPage' = NULL
    /\ LET nextPage == currentSlideIndex + 1 IN
       IF nextPage < Len(slides)
       THEN timeouts' = Append(timeouts, [delay |-> 1000, nextPage |-> nextPage,
                                          after |-> pptAudioRef.src,
                                          stale |-> FALSE])
       ELSE UNCHANGED timeouts
    /\ UNCHANGED <<slides, currentSlideIndex, hasNarration, audioFiles, autoStarted>>
    /\ UNCHANGED <<isGeneratingNarration, parserVars, ttsVars, serviceVars, workflowVars, monitorVars>>

\* the timeouts but the i-th
Without(ts, i) == SubSeq(ts, 1, i - 1) \o SubSeq(ts, i + 1, Len(ts))

\* timers of the same delay fire in the order they were set
Due(i) == \A j \in 1 .. (i - 1) : timeouts[j].delay # timeouts[i].delay

\* the outer timer of handleAudioEnded (1000 ms): show the next slide and
\* set the inner timer
AdvanceTimeoutOf(i) ==
        LET t == timeouts[i] IN
        /\ t.delay = 1000
        /\ Due(i)
        /\ currentSlideIndex' = t.nextPage
        /\ timeouts' = Append(Without(timeouts, i), [t EXCEPT !.delay = 500])
        /\ UNCHANGED <<slides, isPlayingAudio, currentAudioPage, hasNarration,
                       pptAudioRef, audioFiles, autoStarted>>
        /\ UNCHANGED <<isGeneratingNarration, parserVars, ttsVars, serviceVars, workflowVars, monitorVars>>

AdvanceTimeout == \E i \in DOMAIN timeouts : AdvanceTimeoutOf(i)

\* the inner timer (500 ms): play the audio of page nextPage + 1
PlayTimeoutOf(i) ==
        LET t == timeouts[i]
            nextPageNumber == t.nextPage + 1
        IN
        /\ t.delay = 500
        /\ Due(i)
        /\ pptAudioRef' = pptPlay(getSlideAudioUrl(nextPageNumber), "auto", t.after)
        /\ timeouts' = Without(timeouts, i)
        /\ UNCHANGED <<slides, currentSlideIndex, isPlayingAudio, currentAudioPage,
                       hasNarration, audioFiles, autoStarted>>
        /\ UNCHANGED <<isGeneratingNarration, parserVars, ttsVars, serviceVars, workflowVars, monitorVars>>

PlayTimeout == \E i \in DOMAIN timeouts : PlayTimeoutOf(i)

\* setupSlideData has stored the slides of the document; the server holds
\* the narration audio of some of its pages
PptInit ==
    /\ slides = [i \in 1 .. MaxSlides |-> i]
    /\ currentSlideIndex = 0
    /\ isPlayingAudio = FALSE
    /\ currentAudioPage = NULL
    /\ hasNarration = FALSE
    /\ isGeneratingNarration = FALSE
    /\ pptAudioRef = [src |-> NULL, state |-> "paused", from |-> "", after |-> 0]
    /\ audioFiles \in SUBSET (1 .. MaxSlides)
    /\ timeouts = <<>>
    /\ autoStarted = [after |-> 0, page |-> 0]
    /\ ParserIdle
    /\ TtsIdle
    /\ WorkflowIdle
    /\ MonitorIdle
    /\ ServiceIdle

PptNext ==
    \/ GoToSlide
    \/ CheckNarrationStatus
    \/ GenerateNarration
    \/ NarrationResponse
    \/ PlayCurrentSlideAudio
    \/ PptPlayResolves
    \/ PptPlayFails
    \/ PptStopAudio
    \/ HandleAudioEnded
    \/ AdvanceTimeout
    \/ PlayTimeout

PptSpec == PptInit /\ [][PptNext]_vars

\* C7: the page auto-play starts is the one after the page whose audio
\* ended, whatever slide the user went to while that audio was playing.
C7_StrictlySequential ==
    autoStarted.page # 0 => autoStarted.page = autoStarted.after + 1

\* ------------------------------------------------------------------
\* DocumentWorkflow: the segments of a speech stream and their playback
\*
\* A segment is its base64 audioData; the url made for the segment at
\* array index i is identified with i + 1.

\* the audioData a stream delivers: decodable or not
SegmentData == {PayloadHello, PayloadBad}

\* playAudioSegment(index), up to its `await audioRef.current.play()`:
\* the element it leaves behind
playAudioSegment(index) ==
    IF index + 1 \notin DOMAIN tts.audioSegments
    THEN wfAudioRef
    ELSE IF ~atob(tts.audioSegments[index + 1]).ok
         THEN wfAudioRef
         ELSE [src |-> index + 1, state |-> "loading", index |-> index, ended |-> FALSE]

\* handleTTSSynthesis, up to the call of synthesizeSpeechStream; the
\* server will announce `total` segments
HandleTTSSynthesis ==
    \E total \in 1 .. MaxSegments :
        /\ ~tts.streaming
        /\ speechStream.round < MaxSyntheses
        /\ tts' = [tts EXCEPT !.streaming = TRUE,
                                                  !.audioSegments = <<>>,
                                                  !.currentSegment = 0,
                                                  !.totalSegments = 0]
        /\ speechStream' = [round |-> speechStream.round + 1, total |-> total,
                            sent |-> 0, open |-> TRUE]
        /\ UNCHANGED <<playbackState, wfAudioRef, currentAudioIndex>>
        /\ UNCHANGED <<parserVars, ttsVars, serviceVars, pptVars, monitorVars>>

\* onAudioChunk(audioData, segment, total)
OnAudioChunk ==
    \E audioData \in SegmentData :
        LET segment == speechStream.sent + 1 IN
        /\ speechStream.open
        /\ segment <= speechStream.total
        /\ tts' = [tts EXCEPT
                      !.audioSegments = Append(@, audioData),
                      !.currentSegment = segment,
                      !.totalSegments = speechStream.total]
        /\ speechStream' = [speechStream EXCEPT !.sent = segment]
        /\ UNCHANGED <<playbackState, wfAudioRef, currentAudioIndex>>
        /\ UNCHANGED <<parserVars, ttsVars, serviceVars, pptVars, monitorVars>>

\* onComplete()
OnComplete ==
    /\ speechStream.open
    /\ speechStream.sent = speechStream.total
    /\ tts' = [tts EXCEPT !.completed = TRUE, !.streaming = FALSE,
                                              !.error = FALSE]
    /\ playbackState' = [playbackState EXCEPT !.totalSegments = Len(tts.audioSegments)]
    /\ speechStream' = [speechStream EXCEPT !.open = FALSE]
    /\ UNCHANGED <<wfAudioRef, currentAudioIndex>>
    /\ UNCHANGED <<parserVars, ttsVars, serviceVars, pptVars, monitorVars>>

\* onError(error): the stream ends with an error
OnError ==
    /\ speechStream.open
    /\ tts' = [tts EXCEPT !.streaming = FALSE, !.error = TRUE]
    /\ speechStream' = [speechStream EXCEPT !.open = FALSE]
    /\ UNCHANGED <<playbackState, wfAudioRef, currentAudioIndex>>
    /\ UNCHANGED <<parserVars, ttsVars, serviceVars, pptVars, monitorVars>>

\* the button of a segment of the list: pauseAudio when that segment is
\* the one playing, playAudioSegment(index) otherwise
SegmentButton ==
    \E index \in 0 .. (Len(tts.audioSegments) - 1) :
        /\ IF playbackState.isPlaying /\ playbackState.currentSegment = index
           THEN /\ wfAudioRef' = [wfAudioRef EXCEPT !.state = "paused"]
                /\ playbackState' = [playbackState EXCEPT !.isPlaying = FALSE]
           ELSE /\ wfAudioRef' = playAudioSegment(index)
                /\ UNCHANGED playbackState
        /\ UNCHANGED <<tts, currentAudioIndex, speechStream>>
        /\ UNCHANGED <<parserVars, ttsVars, serviceVars, pptVars, monitorVars>>

\* the play() promise resolves and playAudioSegment goes on
WfPlayResolves ==
    /\ wfAudioRef.state = "loading"
    /\ wfAudioRef' = [wfAudioRef EXCEPT !.state = "playing"]
    /\ playbackState' = [playbackState EXCEPT !.isPlaying = TRUE,
                                              !.currentSegment = wfAudioRef.index]
    /\ currentAudioIndex' = wfAudioRef.index
    /\ UNCHANGED <<tts, speechStream>>
    /\ UNCHANGED <<parserVars, ttsVars, serviceVars, pptVars, monitorVars>>

\* the play() promise is rejected (the bytes are no audio, or the browser
\* refuses): playAudioSegment shows its error message
WfPlayFails ==
    /\ wfAudioRef.state = "loading"
    /\ wfAudioRef' = [wfAudioRef EXCEPT !.state = "paused"]
    /\ UNCHANGED <<tts, playbackState, currentAudioIndex, speechStream>>
    /\ UNCHANGED <<parserVars, ttsVars, serviceVars, pptVars, monitorVars>>

\* the audio reaches its end and the onEnded handler runs
OnEnded ==
    /\ wfAudioRef.state = "playing"
    /\ LET nextIndex == currentAudioIndex + 1
           ended == [wfAudioRef EXCEPT !.state = "paused", !.ended = TRUE]
       IN
       IF nextIndex < Len(tts.audioSegments)
       THEN /\ wfAudioRef' = IF playAudioSegment(nextIndex) = wfAudioRef
                             THEN ended
                             ELSE playAudioSegment(nextIndex)
            /\ UNCHANGED playbackState
       ELSE /\ wfAudioRef' = ended
            /\ playbackState' = [playbackState EXCEPT !.isPlaying = FALSE,
                                                      !.currentSegment = 0]
    /\ UNCHANGED <<tts, currentAudioIndex, speechStream>>
    /\ UNCHANGED <<parserVars, ttsVars, serviceVars, pptVars, monitorVars>>

WorkflowInit ==
    /\ WorkflowIdle
    /\ ParserIdle
    /\ TtsIdle
    /\ PptIdle
    /\ MonitorIdle
    /\ ServiceIdle

WorkflowNext ==
    \/ HandleTTSSynthesis
    \/ OnAudioChunk
    \/ OnComplete
    \/ OnError
    \/ SegmentButton
    \/ WfPlayResolves
    \/ WfPlayFails
    \/ OnEnded

WorkflowSpec == WorkflowInit /\ [][WorkflowNext]_vars

\* the segment after the one that played is announced but has not arrived
NextSegmentPending ==
    /\ tts.streaming
    /\ currentAudioIndex + 1 >= Len(tts.audioSegments)
    /\ currentAudioIndex + 1 < tts.totalSegments

\* C8: when a segment ends while the next one is still pending, the
\* sequencer keeps its place: it stays on the segment that ended or on the
\* one it waits for, and goes neither back to the first nor further on.
C8_WaitsForPendingSegment ==
    [][(/\ wfAudioRef.state = "playing"
        /\ wfAudioRef'.ended
        /\ NextSegmentPending)
       => playbackState'.currentSegment
             \in {currentAudioIndex, currentAudioIndex + 1}]_vars

\* ------------------------------------------------------------------
\* slideService.waitForPPTConversion and the waitForPPTConversion of
\* PPTPresentation that calls it
\*
\* Time is counted in units of 1000 ms. The clock stops telling instants
\* apart at MaxTime, so a call starts early enough for its deadline to lie
\* before that; a timer may fire late, never early.

\* `checkInterval`: 3000 ms
checkInterval == 3

\* the `timeout` of the axios instance behind getDocumentSlides: 10000 ms
axiosTimeout == 10

\* the values of maxWaitTime the call is made with
MaxWaitTimes == {2, 7}

\* the instant d after t, as far as the clock tells
Later(t, d) == IF t + d > MaxTime THEN MaxTime ELSE t + d

\* Date.now() - startTime
Elapsed == now - startTime

\* a variant of loopTest that gives up one interval early
loopTestEarly == Elapsed + checkInterval < maxWaitTime

\* the condition of the while loop
loopTest == Elapsed < maxWaitTime

\* `await new Promise(resolve => setTimeout(resolve, checkInterval))`
Sleep ==
    /\ waitPc' = "sleep"
    /\ wakeAt' = Later(now, checkInterval)

\* a variant of onPollError that lets the error of the poll out of the loop
onPollErrorRethrown ==
    /\ waitPc' = "failed"
    /\ UNCHANGED wakeAt

\* the catch clause of the loop: a warning, then the same sleep
onPollError == Sleep

\* time passes
Tick ==
    /\ now < MaxTime
    /\ now' = now + 1
    /\ UNCHANGED <<startTime, maxWaitTime, waitPc, requestSent, wakeAt, conversion,
                   isConverting>>
    /\ UNCHANGED <<pollFailed, parserVars, ttsVars, serviceVars, pptVars, workflowVars>>

\* the server finishes converting the document
BackendConverts ==
    /\ conversion = "converting"
    /\ conversion' = "done"
    /\ UNCHANGED <<now, startTime, maxWaitTime, waitPc, requestSent, wakeAt,
                   isConverting>>
    /\ UNCHANGED <<pollFailed, parserVars, ttsVars, serviceVars, pptVars, workflowVars>>

\* PPTPresentation's waitForPPTConversion calls
\* slideService.waitForPPTConversion(document.id, maxWaitTime)
WaitForPPTConversion ==
    \E m \in MaxWaitTimes :
        /\ waitPc = "idle"
        /\ now + m <= MaxTime
        /\ isConverting' = TRUE
        /\ startTime' = now
        /\ maxWaitTime' = m
        /\ waitPc' = "test"
        /\ pollFailed' = FALSE
        /\ UNCHANGED <<now, requestSent, wakeAt, conversion>>
        /\ UNCHANGED <<parserVars, ttsVars, serviceVars, pptVars, workflowVars>>

\* the while condition is evaluated: the next poll is sent, or the timeout
\* error is thrown, which rejects the promise of the async function and
\* lands in the catch clause of the caller
LoopTest ==
    /\ waitPc = "test"
    /\ IF loopTest
       THEN /\ waitPc' = "slides"
            /\ requestSent' = now
            /\ UNCHANGED isConverting
       ELSE /\ waitPc' = "rejected"
            /\ isConverting' = FALSE
            /\ UNCHANGED requestSent
    /\ UNCHANGED <<now, startTime, maxWaitTime, wakeAt, conversion>>
    /\ UNCHANGED <<pollFailed, parserVars, ttsVars, serviceVars, pptVars, workflowVars>>

\* getDocumentSlides answers: without slides, with slides that have no
\* image_url, or with slides whose first has one
SlidesResponse ==
    \E slideData \in {"noSlides", "noImageUrl", "imageUrl"} :
        /\ waitPc = "slides"
        /\ now - requestSent <= axiosTimeout
        /\ conversion = "done" => slideData = "imageUrl"
        /\ pollFailed' = FALSE
        /\ IF slideData = "imageUrl"
           THEN /\ waitPc' = "image"
                /\ UNCHANGED wakeAt
           ELSE Sleep
        /\ UNCHANGED <<now, startTime, maxWaitTime, requestSent, conversion,
                       isConverting>>
        /\ UNCHANGED <<parserVars, ttsVars, serviceVars, pptVars, workflowVars>>

\* getDocumentSlides fails (an error status, no connection): the catch
\* clause of the loop sleeps
SlidesFails ==
    /\ waitPc = "slides"
    /\ now - requestSent <= axiosTimeout
    /\ onPollError
    /\ pollFailed' = TRUE
    /\ UNCHANGED <<now, startTime, maxWaitTime, requestSent, conversion, isConverting>>
    /\ UNCHANGED <<parserVars, ttsVars, serviceVars, pptVars, workflowVars>>

\* no answer within the timeout of the axios instance: the request is
\* given up and the catch clause of the loop sleeps
AxiosTimeout ==
    /\ waitPc = "slides"
    /\ now >= Later(requestSent, axiosTimeout)
    /\ onPollError
    /\ pollFailed' = TRUE
    /\ UNCHANGED <<now, startTime, maxWaitTime, requestSent, conversion, isConverting>>
    /\ UNCHANGED <<parserVars, ttsVars, serviceVars, pptVars, workflowVars>>

\* the fetch of checkImageExists settles: the image is there, or it is
\* not, or the fetch failed, which checkImageExists turns into false
ImageResponse ==
    \E imageExists \in BOOLEAN :
        /\ waitPc = "image"
        /\ imageExists => conversion = "done"
        /\ IF imageExists
           THEN /\ waitPc' = "returned"
                /\ UNCHANGED wakeAt
           ELSE Sleep
        /\ UNCHANGED <<now, startTime, maxWaitTime, requestSent, conversion,
                       isConverting>>
        /\ UNCHANGED <<pollFailed, parserVars, ttsVars, serviceVars, pptVars, workflowVars>>

\* the timer of the sleep fires and the loop goes round
SleepWakes ==
    /\ waitPc = "sleep"
    /\ now >= wakeAt
    /\ waitPc' = "test"
    /\ UNCHANGED <<now, startTime, maxWaitTime, requestSent, wakeAt, conversion,
                   isConverting>>
    /\ UNCHANGED <<pollFailed, parserVars, ttsVars, serviceVars, pptVars, workflowVars>>

MonitorInit ==
    /\ MonitorIdle
    /\ ServiceIdle
    /\ ParserIdle
    /\ TtsIdle
    /\ PptIdle
    /\ WorkflowIdle

MonitorNext ==
    \/ Tick
    \/ BackendConverts
    \/ WaitForPPTConversion
    \/ LoopTest
    \/ SlidesResponse
    \/ SlidesFails
    \/ AxiosTimeout
    \/ ImageResponse
    \/ SleepWakes

MonitorSpec == MonitorInit /\ [][MonitorNext]_vars

\* the same with what the runtime guarantees: time passes, code that can
\* run does, timers fire, and a getDocumentSlides request settles (by the
\* timeout of axios at the latest); the fetch of checkImageExists has no
\* timeout, so nothing makes it settle
MonitorFairSpec ==
    /\ MonitorSpec
    /\ WF_vars(Tick)
    /\ WF_vars(LoopTest)
    /\ WF_vars(SleepWakes)
    /\ WF_vars(SlidesResponse \/ SlidesFails \/ AxiosTimeout)

\* C9: the call is rejected only when at least maxWaitTime has passed since
\* it started, and the rejection has reached the catch clause of the caller.
C9_TimeoutNotBefore ==
    waitPc = "rejected" => (Elapsed >= maxWaitTime /\ ~isConverting)

\* a call with the longer wait, polling a job that never completed, was
\* rejected, some time after the deadline
C9_Witness ==
    /\ waitPc = "rejected"
    /\ maxWaitTime = 7
    /\ conversion = "converting"
    /\ Elapsed > maxWaitTime

\* C10: once the deadline of a running call has passed, the call is
\* rejected with the timeout error, unless the job completes after all.
C10_HardDeadline ==
    (waitPc \in {"test", "slides", "image", "sleep"} /\ Elapsed >= maxWaitTime)
        ~> (waitPc = "rejected" \/ conversion = "done")

\* ------------------------------------------------------------------
\* llmService.chatStream and the handleSendMessage of ChatInterface
\*
\* The response is a sequence of complete lines, each of them a record of
\* some type or a line JSON.parse rejects ("bad"), and possibly a last
\* line that no newline follows (`tail`), which stays in `buffer`.

\* how many lines a response has at most
MaxLines == 3

\* the lines of a chat response
ChatLines == {"chunk", "done", "error", "bad"}

\* the `for (const line of lines)` of chatStream over the lines of one
\* read: onChunk for every record, then onComplete or onError and `return`
\* for a 'done' or 'error' record
RECURSIVE forChatLines(_, _)
forChatLines(lines, call) ==
    IF lines = <<>> THEN call
    ELSE LET line == Head(lines) IN
         IF line = "bad" THEN forChatLines(Tail(lines), call)
         ELSE IF line = "done"
              THEN [call EXCEPT !.onComplete = @ + 1, !.pc = "returned"]
         ELSE IF line = "error"
              THEN [call EXCEPT !.onError = @ + 1, !.pc = "returned"]
         ELSE forChatLines(Tail(lines), [call EXCEPT !.fullContent = @ + 1])

\* what the callbacks of handleSendMessage make of isStreaming: both
\* onComplete and onError call setIsStreaming(false)
AfterCallbacks(call) ==
    IF call.onComplete + call.onError > chatStream.onComplete + chatStream.onError
    THEN FALSE
    ELSE isStreaming

\* handleSendMessage up to the fetch of chatStream; the send button and
\* the input are disabled while isStreaming
HandleSendMessage ==
    \E lines \in SeqsUpTo(ChatLines, MaxLines), tail \in {"", "chunk", "done"} :
        /\ ~isStreaming
        /\ chatStream.pc \in {"idle", "returned"}
        /\ isStreaming' = TRUE
        /\ chatStream' = [pc |-> "fetch", lines |-> lines, tail |-> tail,
                          fullContent |-> 0, onComplete |-> 0, onError |-> 0]
        /\ UNCHANGED <<synthesizeSpeechStream, parserVars, ttsVars, pptVars,
                       workflowVars, monitorVars>>

\* the fetch is rejected, the status is not ok or the body has no reader:
\* the catch clause calls onError
ChatFetchFails ==
    /\ chatStream.pc = "fetch"
    /\ chatStream' = [chatStream EXCEPT !.onError = @ + 1, !.pc = "returned"]
    /\ isStreaming' = AfterCallbacks(chatStream')
    /\ UNCHANGED <<synthesizeSpeechStream, parserVars, ttsVars, pptVars,
                   workflowVars, monitorVars>>

\* the response arrives with an ok status and a readable body
ChatFetchResponds ==
    /\ chatStream.pc = "fetch"
    /\ chatStream' = [chatStream EXCEPT !.pc = "read"]
    /\ UNCHANGED <<isStreaming, synthesizeSpeechStream, parserVars, ttsVars, pptVars,
                   workflowVars, monitorVars>>

\* reader.read() delivers the next k complete lines
ChatRead ==
    \E k \in 1 .. Len(chatStream.lines) :
        /\ chatStream.pc = "read"
        /\ chatStream' = forChatLines(SubSeq(chatStream.lines, 1, k),
                              [chatStream EXCEPT
                                  !.lines = SubSeq(@, k + 1, Len(@))])
        /\ isStreaming' = AfterCallbacks(chatStream')
        /\ UNCHANGED <<synthesizeSpeechStream, parserVars, ttsVars, pptVars,
                       workflowVars, monitorVars>>

\* reader.read() reports done: `break`, and chatStream returns; what is
\* left in `buffer` is not looked at
ChatReadDone ==
    /\ chatStream.pc = "read"
    /\ chatStream.lines = <<>>
    /\ chatStream' = [chatStream EXCEPT !.pc = "returned"]
    /\ UNCHANGED <<isStreaming, synthesizeSpeechStream, parserVars, ttsVars, pptVars,
                   workflowVars, monitorVars>>

\* reader.read() is rejected: the catch clause calls onError
ChatReadFails ==
    /\ chatStream.pc = "read"
    /\ chatStream' = [chatStream EXCEPT !.onError = @ + 1, !.pc = "returned"]
    /\ isStreaming' = AfterCallbacks(chatStream')
    /\ UNCHANGED <<synthesizeSpeechStream, parserVars, ttsVars, pptVars,
                   workflowVars, monitorVars>>

ChatInit ==
    /\ ServiceIdle
    /\ ParserIdle
    /\ TtsIdle
    /\ PptIdle
    /\ WorkflowIdle
    /\ MonitorIdle

ChatNext ==
    \/ HandleSendMessage
    \/ ChatFetchFails
    \/ ChatFetchResponds
    \/ ChatRead
    \/ ChatReadDone
    \/ ChatReadFails

ChatSpec == ChatInit /\ [][ChatNext]_vars

\* C25: when chatStream has returned, exactly one of onComplete and onError
\* has been called, once, and the page is no longer streaming.
C25_ChatStreamSettles ==
    chatStream.pc = "returned"
    => /\ chatStream.onComplete + chatStream.onError = 1
       /\ ~isStreaming

\* ------------------------------------------------------------------
\* DocumentService.synthesizeSpeechStream, with callbacks that return
\*
\* `body` is the response as its complete lines, `lines` those still to be
\* read; `failed` tells that the fetch or a read was rejected, and `late`
\* that onAudioChunk was called after onComplete or onError.

\* the lines of a speech response
SpeechLines == {"audio", "error", "other", "bad"}

\* onAudioChunk(data.data, data.segment, data.total)
onAudioChunk(call) ==
    [call EXCEPT !.onAudioChunk = @ + 1,
                 !.late = @ \/ call.onComplete + call.onError > 0]

\* a variant of forSpeechLines that goes on after an 'error' record
RECURSIVE forSpeechLinesOn(_, _)
forSpeechLinesOn(lines, call) ==
    IF lines = <<>> THEN call
    ELSE LET line == Head(lines) IN
         IF line = "audio" THEN forSpeechLinesOn(Tail(lines), onAudioChunk(call))
         ELSE IF line = "error"
              THEN forSpeechLinesOn(Tail(lines), [call EXCEPT !.onError = @ + 1])
         ELSE forSpeechLinesOn(Tail(lines), call)

\* the `for (const line of lines)` of synthesizeSpeechStream over the lines
\* of one read: onAudioChunk for an 'audio' record, onError and `return`
\* for an 'error' record, nothing for any other line
RECURSIVE forSpeechLines(_, _)
forSpeechLines(lines, call) ==
    IF lines = <<>> THEN call
    ELSE LET line == Head(lines) IN
         IF line = "audio" THEN forSpeechLines(Tail(lines), onAudioChunk(call))
         ELSE IF line = "error"
              THEN [call EXCEPT !.onError = @ + 1, !.pc = "returned"]
         ELSE forSpeechLines(Tail(lines), call)

\* synthesizeSpeechStream is called, as handleTTSSynthesis does while no
\* synthesis is running
SynthesizeSpeechStream ==
    \E lines \in SeqsUpTo(SpeechLines, MaxLines) :
        /\ synthesizeSpeechStream.pc \in {"idle", "returned"}
        /\ synthesizeSpeechStream' =
              [pc |-> "fetch", body |-> lines, lines |-> lines, failed |-> FALSE,
               onAudioChunk |-> 0, onComplete |-> 0, onError |-> 0, late |-> FALSE]
        /\ UNCHANGED <<chatVars, parserVars, ttsVars, pptVars, workflowVars, monitorVars>>

\* the fetch is rejected, the status is not ok or the body has no reader
SpeechFetchFails ==
    /\ synthesizeSpeechStream.pc = "fetch"
    /\ synthesizeSpeechStream' =
          [synthesizeSpeechStream EXCEPT !.onError = @ + 1, !.failed = TRUE,
                                         !.pc = "returned"]
    /\ UNCHANGED <<chatVars, parserVars, ttsVars, pptVars, workflowVars, monitorVars>>

\* the response arrives with an ok status and a readable body
SpeechFetchResponds ==
    /\ synthesizeSpeechStream.pc = "fetch"
    /\ synthesizeSpeechStream' = [synthesizeSpeechStream EXCEPT !.pc = "read"]
    /\ UNCHANGED <<chatVars, parserVars, ttsVars, pptVars, workflowVars, monitorVars>>

\* reader.read() delivers the next k complete lines
SpeechRead ==
    \E k \in 1 .. Len(synthesizeSpeechStream.lines) :
        /\ synthesizeSpeechStream.pc = "read"
        /\ synthesizeSpeechStream' =
              forSpeechLines(SubSeq(synthesizeSpeechStream.lines, 1, k),
                             [synthesizeSpeechStream EXCEPT
                                 !.lines = SubSeq(@, k + 1, Len(@))])
        /\ UNCHANGED <<chatVars, parserVars, ttsVars, pptVars, workflowVars, monitorVars>>

\* reader.read() reports done: `break`, then onComplete
SpeechReadDone ==
    /\ synthesizeSpeechStream.pc = "read"
    /\ synthesizeSpeechStream.lines = <<>>
    /\ synthesizeSpeechStream' =
          [synthesizeSpeechStream EXCEPT !.onComplete = @ + 1, !.pc = "returned"]
    /\ UNCHANGED <<chatVars, parserVars, ttsVars, pptVars, workflowVars, monitorVars>>

\* reader.read() is rejected: the catch clause calls onError
SpeechReadFails ==
    /\ synthesizeSpeechStream.pc = "read"
    /\ synthesizeSpeechStream' =
          [synthesizeSpeechStream EXCEPT !.onError = @ + 1, !.failed = TRUE,
                                         !.pc = "returned"]
    /\ UNCHANGED <<chatVars, parserVars, ttsVars, pptVars, workflowVars, monitorVars>>

SpeechNext ==
    \/ SynthesizeSpeechStream
    \/ SpeechFetchFails
    \/ SpeechFetchResponds
    \/ SpeechRead
    \/ SpeechReadDone
    \/ SpeechReadFails

SpeechSpec == ChatInit /\ [][SpeechNext]_vars

\* the lines of the response that the call has read
SpeechConsumed ==
    SubSeq(synthesizeSpeechStream.body, 1,
           Len(synthesizeSpeechStream.body) - Len(synthesizeSpeechStream.lines))

C11_EarlierStreamCancelled ==
    [][\A s \in DOMAIN sessions :
          s < Len(sessions)
          => /\ sessions'[s].ingested = sessions[s].ingested
             /\ ResultOf(results', s) = ResultOf(results, s)]_vars

\* the pieces of a body that are no well-formed record by themselves
MalformedPiece == <<"d", "a", "t", "a", ":", " ", "{", "c", "\n">>
BlankPiece == <<"\n">>
UnterminatedPiece == <<"d", "a", "t", "a", ":", " ", "{", "f", "}">>

\* the event a well-formed record carries: the text between its braces
PieceEvent(piece) ==
    IF piece[8] = "s" THEN <<"s", "U+E9">> ELSE <<piece[8]>>

RECURSIVE Expected(_, _)
\* the events of the well-formed records of a body, given as its pieces.
\* `pending` tells what precedes on the same line: nothing ("none"), one
\* record without its newline ("record"), or more ("junk"); a newline
\* completes the former, anything else on the line spoils it.
Expected(ps, pending) ==
    IF ps = <<>> THEN <<>>
    ELSE LET piece == Head(ps) IN
         IF piece = UnterminatedPiece
         THEN Expected(Tail(ps), IF pending = "none" THEN "record" ELSE "junk")
         ELSE IF piece = BlankPiece
         THEN (IF pending = "record" THEN << <<"f">> >> ELSE <<>>)
                  \o Expected(Tail(ps), "none")
         ELSE IF piece = MalformedPiece
         THEN Expected(Tail(ps), "none")
         ELSE (IF pending = "none" THEN <<PieceEvent(piece)>> ELSE <<>>)
                  \o Expected(Tail(ps), "none")

\* C12: when the body has been read, the callback has received the event of
\* every well-formed record, in order, whatever malformed records stand
\* before or between them, and nothing else: no error event stands in for
\* a record that could not be parsed.
C12_MalformedSkipped ==
    readerState = "done" /\ body # <<>>
    => \A ps \in SeqsUpTo(Pieces, MaxRecords) :
          body = Flatten(ps) => delivered = Expected(ps, "none")

\* a malformed record came first and the record after it was delivered
C12_Witness ==
    /\ readerState = "done"
    /\ body = MalformedPiece \o <<"d", "a", "t", "a", ":", " ", "{", "e", "}", "\n">>
    /\ delivered = << <<"e">> >>

\* the terminal event types
Terminal == {"complete", "error", "end"}

\* C13: the callback receives nothing after a terminal event: only the last
\* of the delivered events can be terminal.
C13_TerminalEndsIteration ==
    \A i \in 1 .. (Len(delivered) - 1) : TypeOf(delivered[i][1]) \notin Terminal

\* what of a result makes up its buffer
BufferOf(r) == <<r.audio_chunks, r.file_size, r.stream_audio_url>>

\* C14: once a complete or end event has been handled for a result, no
\* later event changes its chunks, size or url, and a completed status
\* stays completed.
C14_FinalBufferFrozen ==
    [][\A s \in DOMAIN sessions :
          sessions[s].final
          => \A r \in ResultOf(results, s) :
                \A q \in ResultOf(results', s) :
                   /\ BufferOf(q) = BufferOf(r)
                   /\ r.status = "completed" => q.status = "completed"]_vars

\* C15: an audio_chunk whose payload is no base64 text changes neither the
\* result (chunks, size, url, status) nor the blobs nor the playback, and
\* the stream stays open; a valid chunk is appended whatever came before.
C15_BadChunkDropped ==
    [][\A s \in DOMAIN sessions :
          LET ing == sessions[s].ingested IN
          sessions'[s].ingested # ing
          => LET data == Last(sessions'[s].ingested).data IN
             /\ data = PayloadBad
                => /\ results' = results
                   /\ blobs' = blobs
                   /\ playerVars' = playerVars
                   /\ sessions'[s].open
             /\ data \in {PayloadHello, PayloadWorld}
                => \A r \in ResultOf(results, s) :
                      \A q \in ResultOf(results', s) :
                         /\ Len(q.audio_chunks) = Len(r.audio_chunks) + 1
                         /\ q.status = r.status]_vars

\* an undecodable chunk was followed by "Hello", and the result holds the
\* five bytes of "Hello" alone
C15_Witness ==
    \E s \in DOMAIN sessions :
        /\ Len(sessions[s].ingested) = 2
        /\ sessions[s].ingested[1].data = PayloadBad
        /\ sessions[s].ingested[2].data = PayloadHello
        /\ \E r \in ResultOf(results, s) :
              /\ Flatten(r.audio_chunks) = <<72, 101, 108, 108, 111>>
              /\ r.file_size = 5
              /\ r.status # "error"

\* the playback handles are released: neither ref holds an element any more
HandlesReleased == audioRef = NULL /\ streamingAudioRef = NULL

\* nothing is left that will report playback without a new request: no
\* element has a 'play' event waiting for its onplay handler
NothingQueued == \A i \in DOMAIN audios : ~audios[i].playEvent

\* C16: after stopAudio no audio element is playing, the refs no longer hold
\* a playable element, currentPlaying and streamingAudio are null, and nothing
\* is queued that would report playback again.
C16_StopEndsIdle ==
    [][StopAudio
       => /\ Playing' = {}
          /\ currentPlaying' = NULL
          /\ streamingAudio' = NULL
          /\ HandlesReleased'
          /\ NothingQueued']_vars

\* the object urls that exist: one is created per accepted audio_chunk and a
\* url lives until URL.revokeObjectURL is called for it, which the page
\* never does
LiveHandles == DOMAIN blobs

\* C17: at most one playable handle (object url) is live at a time, the
\* earlier one being released whenever an audio_chunk replaces it.
C17_OneLiveHandle == Cardinality(LiveHandles) <= 1

\* a play request for a segment is pending while the page reports another
\* segment as playing
ReentrantRequest ==
    /\ wfAudioRef.state = "loading"
    /\ playbackState.isPlaying
    /\ playbackState.currentSegment # wfAudioRef.index

\* C18: when a play request made during the playback of another segment has
\* been dealt with, what the page reports as playing is the requested
\* segment, and the audio element is playing that segment.
C18_ReentrantPlay ==
    [][(ReentrantRequest /\ wfAudioRef'.state # "loading")
       => (playbackState'.isPlaying
             => /\ wfAudioRef'.state = "playing"
                /\ wfAudioRef'.index = wfAudioRef.index
                /\ playbackState'.currentSegment = wfAudioRef.index)]_vars

\* a step that starts narration audio: the <audio> element is given a url
\* and play() is called on it
NarrationStarts == pptAudioRef'.state = "loading" /\ pptAudioRef' # pptAudioRef

\* C19: narration audio is started, by playCurrentSlideAudio or by the
\* auto-advance timer, only when the document's narration has been reported
\* ready and no generation of its narration is in progress.
C19_NoPlaybackOfUnreadyJob ==
    [][NarrationStarts => hasNarration /\ ~isGeneratingNarration]_vars

\* a step in which a pending getDocumentSlides request ends in an error
PollFails == waitPc = "slides" /\ waitPc' # "slides" /\ pollFailed'

MarkedError ==
    {results[i].id : i \in {j \in DOMAIN results :
        /\ results[j].status # "error"
        /\ \E k \in DOMAIN results' :
              results'[k].id = results[j].id /\ results'[k].status = "error"}}

\* C21: when the error event of a failed stream reaches the page, the
\* session is stopped: its result is marked error and no audio element of
\* that result goes on playing.
C21_ErrorStopsSession ==
    [][\A id \in MarkedError :
          \A i \in DOMAIN audios' :
             audios'[i].rid = id => audios'[i].paused]_vars

PlayRejected(s) ==
    /\ sessions'[s].ingested # sessions[s].ingested
    /\ Last(sessions'[s].ingested).chunk_count = 1
    /\ ResultOf(results', s) # ResultOf(results, s)
    /\ streamingAudioRef' # NULL
    /\ audios'[streamingAudioRef'].paused

\* C23: when the play() of playStreamingAudio is rejected, nothing is
\* reported as playing and nothing plays, the result keeps its chunks and
\* its url, and the stream stays open for further events.
C23_RejectedPlayIsDeferred ==
    [][\A s \in DOMAIN sessions :
          PlayRejected(s)
          => /\ currentPlaying' = NULL
             /\ streamingAudio' = NULL
             /\ Playing' = {}
             /\ sessions'[s].open
             /\ \A r \in ResultOf(results', s) :
                   r.stream_audio_url # NULL /\ r.audio_chunks # <<>>]_vars

\* the chunks of stream s that were appended to its buffer
Accepted(s) == SelectSeq(sessions[s].ingested, Decodable)

\* in this step playStreamingAudio runs for the url just made: the
\* streaming ref holds a new element for it
AutoStarted ==
    /\ blobs' # blobs
    /\ streamingAudioRef' # NULL
    /\ audios'[streamingAudioRef'].kind = "stream"
    /\ audios'[streamingAudioRef'].src = Len(blobs')

\* the result of stream s has an audio element
HasElement(s) == \E i \in DOMAIN audios : audios[i].rid = sessions[s].resultId

C27_UserActionCancelsAutoAdvance ==
    [][\A i \in DOMAIN timeouts :
          (timeouts[i].stale /\ (AdvanceTimeoutOf(i) \/ PlayTimeoutOf(i)))
          => /\ currentSlideIndex' = currentSlideIndex
             /\ pptAudioRef' = pptAudioRef]_vars

\* the body, given as its pieces, ends with a record that no newline follows
EndsWithRecord(ps) ==
    /\ ps # <<>>
    /\ ps[Len(ps)] = UnterminatedPiece
    /\ Len(ps) = 1 \/ ps[Len(ps) - 1] # UnterminatedPiece

\* C28: when the body has been read, the callback has received the event of
\* every record of it, the last one also when the body ends without a
\* newline after it.
C28_LastRecordDelivered ==
    readerState = "done" /\ body # <<>>
    => \A ps \in SeqsUpTo(Pieces, MaxRecords) :
          body = Flatten(ps)
          => delivered = Expected(ps, "none")
                           \o (IF EndsWithRecord(ps) THEN << <<"f">> >> ELSE <<>>)

\* ---- results removed while their streams are read

\* deleteResult(id): the delete button of a result
DeleteResult ==
    \E i \in DOMAIN results :
        LET id == results[i].id IN
        /\ IF currentPlaying = id
           THEN SetPlayer(stopAudio(Player))
           ELSE UNCHANGED <<playerVars, rendered>>
        /\ results' = SelectSeq(results, LAMBDA result : result.id # id)
        /\ UNCHANGED <<blobs, streamingStatus, sessions, nextId, parserVars, pageVars>>

\* clearResults(): the button that empties the list
ClearResults ==
    /\ SetPlayer(stopAudio(Player))
    /\ results' = <<>>
    /\ streamingStatus' = ""
    /\ UNCHANGED <<blobs, sessions, nextId, parserVars, pageVars>>

IsolationNext ==
    \/ NextSynthesizeStream
    \/ StreamEvent(PlainEvents)
    \/ StreamEnds
    \/ StatusTimer
    \/ DeleteResult
    \/ ClearResults

IsolationSpec == TtsInit /\ [][IsolationNext]_vars

\* the results other than the one of stream s are the same after the step
OthersUntouched(s) ==
    /\ Len(results') = Len(results)
    /\ \A i \in DOMAIN results :
          results[i].id # sessions[s].resultId => results'[i] = results[i]

\* C29: an event of a stream changes only the result that was created for
\* that stream: no other result gets its chunk or its status, and when the
\* result has been removed by deleteResult or clearResults the list stays
\* as it is.
C29_StreamsAreIsolated ==
    [][\A s \in DOMAIN sessions, event \in PlainEvents :
          StreamEventOf(s, event) => OthersUntouched(s)]_vars

\* two streams are open, each has delivered one chunk, and each result holds
\* the one chunk of its own stream
C29_Witness ==
    /\ Len(sessions) = 2
    /\ Len(results) = 2
    /\ \A s \in DOMAIN sessions :
          /\ sessions[s].open
          /\ Len(sessions[s].ingested) = 1
          /\ \E i \in DOMAIN results :
                /\ results[i].id = sessions[s].resultId
                /\ Len(results[i].audio_chunks) = 1

\* ---- the presentation from its mount on

\* setupSlideData(slideData) of loadDocument, which the mount effect calls
\* once: a document without slides makes it throw before any state is
\* written; otherwise the slides are stored and the first one is shown. The
\* server holds the narration audio of some of the pages.
SetupSlideData ==
    \E n \in 1 .. MaxSlides :
        /\ slides = <<>>
        /\ slides' = [i \in 1 .. n |-> i]
        /\ currentSlideIndex' = 0
        /\ audioFiles' \in SUBSET (1 .. n)
        /\ UNCHANGED <<isPlayingAudio, currentAudioPage, hasNarration,
                       pptAudioRef, timeouts, autoStarted>>
        /\ UNCHANGED <<isGeneratingNarration, parserVars, ttsVars, serviceVars, workflowVars, monitorVars>>

\* the component as useState initialises it, while loadDocument is awaited
PresentationInit ==
    /\ PptIdle
    /\ ParserIdle
    /\ TtsIdle
    /\ WorkflowIdle
    /\ MonitorIdle
    /\ ServiceIdle

\* the controls are rendered once loading is over
PresentationNext ==
    \/ SetupSlideData
    \/ slides # <<>> /\ PptNext

PresentationSpec == PresentationInit /\ [][PresentationNext]_vars

\* C30: whenever the presentation has slides, currentSlideIndex is the index
\* of one of them, whatever navigation, loading and auto-advance steps were
\* taken.
C30_IndexInRange ==
    slides # <<>> => currentSlideIndex \in 0 .. (Len(slides) - 1)

\* a document of two slides was loaded and the timer of handleAudioEnded has
\* shown its last slide
C30_Witness ==
    /\ Len(slides) = 2
    /\ currentSlideIndex = Len(slides) - 1
    /\ \E i \in DOMAIN timeouts :
          timeouts[i].delay = 500 /\ timeouts[i].nextPage = currentSlideIndex
====
